---------------------------- MODULE Spec2Model ----------------------------
(***************************************************************************)
(* Model of the armada cluster-utilisation service (resource accounting),  *)
(* of JobIdFromEvent, and of the start-up and shutdown wiring of Serve.    *)
(***************************************************************************)
EXTENDS Integers, Sequences, FiniteSets, TLC

(***************************************************************************)
(* Bounds of the model.                                                    *)
(***************************************************************************)
MaxPods == 2

MaxTaints == 2

MaxReports == 2

MaxWord == 2

MaxServers == 2

VARIABLES
    nodes,          \* NodeLister's cache: the node snapshot, a list of nodes
    pods,           \* PodLister's cache: the pod snapshot, a list of pods
    capacity,       \* what the last GetAvailableClusterCapacity call returned
    processingNodes,           \* that call's processingNodes
    allPodsRequiringResource,  \* that call's allPodsRequiringResource
    sink,           \* the reports handed to UsageClient.ReportUsage, in order
    cycle,          \* what the last ReportClusterUtilisation call did
    logged,         \* the error lines the last ReportClusterUtilisation call logged
    event,          \* the event handed to JobIdFromEvent
    extracted,      \* what JobIdFromEvent returned for it
    config,         \* the ArmadaConfig handed to Serve
    status,         \* "init", "serving", "panicked", "fatal" or "stopped"
    eventStore,     \* the EventStore appends go to: "kafka", "nats", "redis"
    eventReads,     \* the repository the event server reads from
    registered,     \* the tasks registered with the task manager
    natsStarts,     \* the number of calls of the NATS event processor's Start
    natsConn,       \* the NATS connection: "none", "open" or "closed"
    inFlight,       \* the registered tasks with an iteration in flight
    batchInFlight,  \* the NATS processor is applying a delivered batch
    rpcInFlight,    \* a submit call is appending its events
    stopSignalled,  \* StopAll has told the tasks to stop
    shutdownLog,    \* the calls of the shutdown function that have returned
    truncated       \* the work in flight on a connection when it was closed

accVars ==
    <<nodes, pods, capacity, processingNodes, allPodsRequiringResource, sink, cycle,
      logged>>

evVars == <<event, extracted>>

srvVars ==
    <<config, status, eventStore, eventReads, registered, natsStarts, natsConn,
      inFlight, batchInFlight, rpcInFlight, stopSignalled, shutdownLog, truncated>>

vars == <<accVars, evVars, srvVars>>

(***************************************************************************)
(* common.ComputeResources: a map from resource name to quantity.          *)
(***************************************************************************)
ResourceNames == {"cpu", "memory"}

EmptyResources == [k \in {} |-> 0]

Quantity(a, k) == IF k \in DOMAIN a THEN a[k] ELSE 0

Add(a, b) == [k \in DOMAIN a \cup DOMAIN b |-> Quantity(a, k) + Quantity(b, k)]

Sub(a, b) == [k \in DOMAIN a \cup DOMAIN b |-> Quantity(a, k) - Quantity(b, k)]

RECURSIVE SumResources(_)
SumResources(rs) ==
    IF rs = <<>> THEN EmptyResources
    ELSE Add(SumResources(SubSeq(rs, 1, Len(rs) - 1)), rs[Len(rs)])

CalculateTotalResource(ns) == SumResources([i \in 1..Len(ns) |-> ns[i].Allocatable])

CalculateTotalResourceLimit(ps) == SumResources([i \in 1..Len(ps) |-> ps[i].Resources])

(***************************************************************************)
(* Pods: util.IsManagedPod, util.FilterNonCompletedPods and the queue      *)
(* label (domain.Queue).                                                   *)
(***************************************************************************)
QueueLabel == "queue"

IsManagedPod(pod) == pod.Managed

IsCompleted(pod) == pod.Phase \in {"Succeeded", "Failed"}

FilterNonCompletedPods(ps) == SelectSeq(ps, LAMBDA pod : ~IsCompleted(pod))

(***************************************************************************)
(* filterAvailableProcessingNodes / isAvailableProcessingNode.             *)
(***************************************************************************)
TaintEffectNoSchedule == "NoSchedule"

\* The loop with its break misplaced: only the first taint is looked at.
isAvailableProcessingNodeFirstTaint(node) ==
    IF node.Unschedulable THEN FALSE
    ELSE LET noSchedule ==
                 /\ Len(node.Taints) > 0
                 /\ node.Taints[1].Effect = TaintEffectNoSchedule
         IN  IF noSchedule THEN FALSE ELSE TRUE

isAvailableProcessingNode(node) ==
    IF node.Unschedulable THEN FALSE
    ELSE LET noSchedule ==
                 \E i \in 1..Len(node.Taints) :
                     node.Taints[i].Effect = TaintEffectNoSchedule
         IN  IF noSchedule THEN FALSE ELSE TRUE

filterAvailableProcessingNodes(ns) == SelectSeq(ns, isAvailableProcessingNode)

(***************************************************************************)
(* getAllPodsRequiringResourceOnProcessingNodes.                           *)
(***************************************************************************)
\* The managed test dropped: any pod bound to no node is taken.
RequiresResourceAnyUnbound(pod, nodeMap) ==
    IF pod.NodeName \in nodeMap THEN TRUE
    ELSE pod.NodeName = ""

RequiresResource(pod, nodeMap) ==
    IF pod.NodeName \in nodeMap THEN TRUE
    ELSE IsManagedPod(pod) /\ pod.NodeName = ""

getAllPodsRequiringResourceOnProcessingNodes(allPods, workerNodes) ==
    LET nodeMap == {workerNodes[i].Name : i \in 1..Len(workerNodes)}
    IN  SelectSeq(allPods, LAMBDA pod : RequiresResource(pod, nodeMap))

(***************************************************************************)
(* GetAvailableClusterCapacity.                                            *)
(***************************************************************************)
\* The completed pods not filtered out.
AvailableResourceAllPods(podsRequiringResource, workerNodes) ==
    LET totalNodeResource == CalculateTotalResource(workerNodes)
        totalPodResource == CalculateTotalResourceLimit(podsRequiringResource)
    IN  Sub(totalNodeResource, totalPodResource)

AvailableResource(podsRequiringResource, workerNodes) ==
    LET allNonCompletePodsRequiringResource ==
            FilterNonCompletedPods(podsRequiringResource)
        totalNodeResource == CalculateTotalResource(workerNodes)
        totalPodResource ==
            CalculateTotalResourceLimit(allNonCompletePodsRequiringResource)
    IN  Sub(totalNodeResource, totalPodResource)

GetAvailableClusterCapacity ==
    /\ \E nodeErr, podErr \in BOOLEAN :
          IF nodeErr \/ podErr
          THEN /\ capacity' = [called |-> TRUE, err |-> TRUE, value |-> EmptyResources]
               /\ processingNodes' =
                      IF nodeErr THEN <<>> ELSE filterAvailableProcessingNodes(nodes)
               /\ allPodsRequiringResource' = <<>>
          ELSE /\ processingNodes' = filterAvailableProcessingNodes(nodes)
               /\ allPodsRequiringResource' =
                      getAllPodsRequiringResourceOnProcessingNodes(
                          pods, processingNodes')
               /\ capacity' =
                      [called |-> TRUE, err |-> FALSE,
                       value |-> AvailableResource(
                                     allPodsRequiringResource', processingNodes')]
    /\ UNCHANGED <<nodes, pods, sink, cycle, logged, evVars, srvVars>>

(***************************************************************************)
(* getUsageByQueue: one pass over the pods in list order.  A pod without   *)
(* the queue label is logged and skipped; the first pod of a queue sets    *)
(* the queue's entry, a later one is added to it.                          *)
(***************************************************************************)
EmptyUsage == [q \in {} |-> EmptyResources]

HasQueue(pod) == QueueLabel \in DOMAIN pod.Labels

\* A later pod of a queue replaces the queue's entry instead of adding to it.
UsageStepOverwrite(utilisationByQueue, pod) ==
    IF ~HasQueue(pod) THEN utilisationByQueue
    ELSE LET queue == pod.Labels[QueueLabel]
             podComputeResource == CalculateTotalResourceLimit(<<pod>>)
         IN  [q \in DOMAIN utilisationByQueue \cup {queue} |->
                 IF q = queue THEN podComputeResource
                 ELSE utilisationByQueue[q]]

\* The "present" result of the label lookup ignored: a pod without the
\* label is counted under the empty queue name.
UsageStepZeroQueue(utilisationByQueue, pod) ==
    LET queue == IF HasQueue(pod) THEN pod.Labels[QueueLabel] ELSE ""
        podComputeResource == CalculateTotalResourceLimit(<<pod>>)
    IN  IF queue \in DOMAIN utilisationByQueue
        THEN [utilisationByQueue EXCEPT
                 ![queue] = Add(utilisationByQueue[queue], podComputeResource)]
        ELSE [q \in DOMAIN utilisationByQueue \cup {queue} |->
                 IF q = queue THEN podComputeResource
                 ELSE utilisationByQueue[q]]

UsageStep(utilisationByQueue, pod) ==
    IF ~HasQueue(pod) THEN utilisationByQueue
    ELSE LET queue == pod.Labels[QueueLabel]
             podComputeResource == CalculateTotalResourceLimit(<<pod>>)
         IN  IF queue \in DOMAIN utilisationByQueue
             THEN [utilisationByQueue EXCEPT
                      ![queue] = Add(utilisationByQueue[queue], podComputeResource)]
             ELSE [q \in DOMAIN utilisationByQueue \cup {queue} |->
                      IF q = queue THEN podComputeResource
                      ELSE utilisationByQueue[q]]

RECURSIVE getUsageByQueue(_)
getUsageByQueue(ps) ==
    IF ps = <<>> THEN EmptyUsage
    ELSE UsageStep(getUsageByQueue(SubSeq(ps, 1, Len(ps) - 1)), ps[Len(ps)])

NoQueueLog(ps) ==
    LET missing == SelectSeq(ps, LAMBDA pod : ~HasQueue(pod))
    IN  [i \in 1..Len(missing) |-> [msg |-> "no queue", pod |-> missing[i].Name]]

(***************************************************************************)
(* createReportsOfQueueUsages: one QueueReport per entry of the map, in    *)
(* the order the map is ranged over, which Go leaves unspecified: the set  *)
(* of the lists it may return.                                             *)
(***************************************************************************)
createReportsOfQueueUsages(ps) ==
    LET usagesByQueue == getUsageByQueue(ps)
        n == Cardinality(DOMAIN usagesByQueue)
        orders == {o \in [1..n -> DOMAIN usagesByQueue] :
                      \A i, j \in 1..n : o[i] = o[j] => i = j}
    IN  {[i \in 1..n |-> [Name |-> o[i], Resources |-> usagesByQueue[o[i]]]] :
            o \in orders}

(***************************************************************************)
(* getAllActiveManagedPods: the managed pods of the lister, completed ones *)
(* dropped.                                                                *)
(***************************************************************************)
getAllActiveManagedPods(ps) == FilterNonCompletedPods(SelectSeq(ps, IsManagedPod))

(***************************************************************************)
(* ReportClusterUtilisation.  ClusterUsageReports is the set of reports    *)
(* one call may hand to the usage client: none when a lister fails.  The   *)
(* report's timestamp (time.Now()) is left out of the model.               *)
(***************************************************************************)
ClientId == "cluster1"

\* The pod read's error not returned on: the report goes out with the
\* empty pod list the failed read gave.
ClusterUsageReportsDespitePodErr(nodeErr, podErr, ns, ps) ==
    IF nodeErr THEN {}
    ELSE LET allAvailableProcessingNodes == filterAvailableProcessingNodes(ns)
             totalNodeResource == CalculateTotalResource(allAvailableProcessingNodes)
             allActiveManagedPods ==
                 IF podErr THEN <<>> ELSE getAllActiveManagedPods(ps)
         IN  {[ClusterId |-> ClientId, Queues |-> queueReports,
               ClusterCapacity |-> totalNodeResource] :
                 queueReports \in createReportsOfQueueUsages(allActiveManagedPods)}

ClusterUsageReports(nodeErr, podErr, ns, ps) ==
    IF nodeErr THEN {}
    ELSE IF podErr THEN {}
    ELSE LET allAvailableProcessingNodes == filterAvailableProcessingNodes(ns)
             totalNodeResource == CalculateTotalResource(allAvailableProcessingNodes)
             allActiveManagedPods == getAllActiveManagedPods(ps)
         IN  {[ClusterId |-> ClientId, Queues |-> queueReports,
               ClusterCapacity |-> totalNodeResource] :
                 queueReports \in createReportsOfQueueUsages(allActiveManagedPods)}

ReportLog(nodeErr, podErr, sinkErr, ps) ==
    IF nodeErr THEN <<[msg |-> "failed to get nodes", pod |-> ""]>>
    ELSE IF podErr THEN <<[msg |-> "failed to get pods", pod |-> ""]>>
    ELSE NoQueueLog(getAllActiveManagedPods(ps))
         \o (IF sinkErr THEN <<[msg |-> "failed to report", pod |-> ""]>> ELSE <<>>)

ReportClusterUtilisation ==
    /\ Len(sink) < MaxReports
    /\ \E nodeErr, podErr, sinkErr \in BOOLEAN :
          LET reports == ClusterUsageReports(nodeErr, podErr, nodes, pods)
          IN  /\ IF reports = {} THEN sink' = sink
                 ELSE \E clusterUsage \in reports : sink' = Append(sink, clusterUsage)
              /\ cycle' = [called |-> TRUE, nodeErr |-> nodeErr,
                           podErr |-> ~nodeErr /\ podErr, sent |-> reports # {}]
              /\ logged' = ReportLog(nodeErr, podErr, sinkErr, pods)
    /\ UNCHANGED <<nodes, pods, capacity, processingNodes, allPodsRequiringResource,
                   evVars, srvVars>>

(***************************************************************************)
(* JobIdFromEvent.  An event is its variant (the dynamic type of           *)
(* event.Event) and, for the variants of the switch, the payload's JobId,  *)
(* a pointer to a Uuid that may be nil.  "Unset" is event.Event = nil and  *)
(* "Unlisted" any variant the switch has no case for.                      *)
(***************************************************************************)
ListedVariants ==
    {"SubmitJob", "ReprioritiseJob", "CancelJob", "JobSucceeded", "JobRunSucceeded",
     "JobRunLeased", "JobRunAssigned", "JobRunRunning", "JobRunErrors"}

OtherVariants == {"Unset", "Unlisted"}

NilUuid == [nil |-> TRUE, High64 |-> 0, Low64 |-> 0]

ZeroUuid == [nil |-> FALSE, High64 |-> 0, Low64 |-> 0]

Uuids == {NilUuid} \cup [nil : {FALSE}, High64 : 0..MaxWord, Low64 : 0..MaxWord]

Events ==
    [Variant : ListedVariants, JobId : Uuids]
        \cup [Variant : OtherVariants, JobId : {NilUuid}]

\* The case of JobRunErrors missing from the switch.
JobIdFromEventNoRunErrors(e) ==
    CASE e.Variant = "SubmitJob" -> [JobId |-> e.JobId, err |-> "nil"]
      [] e.Variant = "ReprioritiseJob" -> [JobId |-> e.JobId, err |-> "nil"]
      [] e.Variant = "CancelJob" -> [JobId |-> e.JobId, err |-> "nil"]
      [] e.Variant = "JobSucceeded" -> [JobId |-> e.JobId, err |-> "nil"]
      [] e.Variant = "JobRunSucceeded" -> [JobId |-> e.JobId, err |-> "nil"]
      [] e.Variant = "JobRunLeased" -> [JobId |-> e.JobId, err |-> "nil"]
      [] e.Variant = "JobRunAssigned" -> [JobId |-> e.JobId, err |-> "nil"]
      [] e.Variant = "JobRunRunning" -> [JobId |-> e.JobId, err |-> "nil"]
      [] OTHER -> [JobId |-> ZeroUuid, err |-> "ErrInvalidArgument"]

JobIdFromEvent(e) ==
    CASE e.Variant = "SubmitJob" -> [JobId |-> e.JobId, err |-> "nil"]
      [] e.Variant = "ReprioritiseJob" -> [JobId |-> e.JobId, err |-> "nil"]
      [] e.Variant = "CancelJob" -> [JobId |-> e.JobId, err |-> "nil"]
      [] e.Variant = "JobSucceeded" -> [JobId |-> e.JobId, err |-> "nil"]
      [] e.Variant = "JobRunSucceeded" -> [JobId |-> e.JobId, err |-> "nil"]
      [] e.Variant = "JobRunLeased" -> [JobId |-> e.JobId, err |-> "nil"]
      [] e.Variant = "JobRunAssigned" -> [JobId |-> e.JobId, err |-> "nil"]
      [] e.Variant = "JobRunRunning" -> [JobId |-> e.JobId, err |-> "nil"]
      [] e.Variant = "JobRunErrors" -> [JobId |-> e.JobId, err |-> "nil"]
      [] OTHER -> [JobId |-> ZeroUuid, err |-> "ErrInvalidArgument"]

NotExtracted == [called |-> FALSE, JobId |-> NilUuid, err |-> "nil"]

ExtractJobId ==
    /\ ~extracted.called
    /\ LET got == JobIdFromEvent(event)
       IN  extracted' = [called |-> TRUE, JobId |-> got.JobId, err |-> got.err]
    /\ UNCHANGED <<event, accVars, srvVars>>

(***************************************************************************)
(* Serve: the choice of the event store, the replication into redis, the   *)
(* registered tasks.  A failed stan.Connect panics and a failed net.Listen *)
(* ends the process (log.Fatalf).                                          *)
(***************************************************************************)
KafkaProcessorIntervalMs == 100

LeaseIntervals == {500, 5000}

Configs ==
    [kafkaBrokers : 0..MaxServers, natsServers : 0..MaxServers,
     leaseIntervalMs : LeaseIntervals]

\* The two tests in the other order: NATS wins over Kafka.
EventBackendNatsFirst(cfg) ==
    IF cfg.natsServers > 0 THEN "nats"
    ELSE IF cfg.kafkaBrokers > 0 THEN "kafka"
    ELSE "redis"

EventBackend(cfg) ==
    IF cfg.kafkaBrokers > 0 THEN "kafka"
    ELSE IF cfg.natsServers > 0 THEN "nats"
    ELSE "redis"

Task(name, intervalMs) == [name |-> name, intervalMs |-> intervalMs]

TaskNames == {t.name : t \in registered}

Serve ==
    /\ status = "init"
    /\ \E connectOk, listenOk \in BOOLEAN :
          LET backend == EventBackend(config)
          IN  IF backend = "nats" /\ ~connectOk
              THEN /\ status' = "panicked"
                   /\ UNCHANGED <<eventStore, eventReads, registered, natsStarts,
                                  natsConn>>
              ELSE /\ eventStore' = backend
                   /\ registered' =
                          (IF backend = "kafka"
                           THEN {Task("kafka_redis_processor", KafkaProcessorIntervalMs)}
                           ELSE {})
                          \cup {Task("lease_expiry", config.leaseIntervalMs)}
                   /\ natsStarts' = IF backend = "nats" THEN natsStarts + 1 ELSE natsStarts
                   /\ natsConn' = IF backend = "nats" THEN "open" ELSE natsConn
                   /\ eventReads' = "redis"
                   /\ status' = IF listenOk THEN "serving" ELSE "fatal"
    /\ UNCHANGED <<config, inFlight, batchInFlight, rpcInFlight, stopSignalled,
                   shutdownLog, truncated, accVars, evVars>>

(***************************************************************************)
(* The work that runs while the server serves: the iterations of the       *)
(* registered tasks, the NATS processor applying a delivered batch, a      *)
(* submit call appending its events.                                       *)
(***************************************************************************)
TaskBegin(t) ==
    /\ status = "serving"
    /\ ~stopSignalled
    /\ t \in TaskNames
    /\ t \notin inFlight
    /\ inFlight' = inFlight \cup {t}
    /\ UNCHANGED <<config, status, eventStore, eventReads, registered, natsStarts,
                   natsConn, batchInFlight, rpcInFlight, stopSignalled, shutdownLog,
                   truncated, accVars, evVars>>

TaskEnd(t) ==
    /\ t \in inFlight
    /\ inFlight' = inFlight \ {t}
    /\ UNCHANGED <<config, status, eventStore, eventReads, registered, natsStarts,
                   natsConn, batchInFlight, rpcInFlight, stopSignalled, shutdownLog,
                   truncated, accVars, evVars>>

NatsDeliver ==
    /\ status = "serving"
    /\ natsStarts > 0
    /\ natsConn = "open"
    /\ ~batchInFlight
    /\ batchInFlight' = TRUE
    /\ UNCHANGED <<config, status, eventStore, eventReads, registered, natsStarts,
                   natsConn, inFlight, rpcInFlight, stopSignalled, shutdownLog,
                   truncated, accVars, evVars>>

NatsApplied ==
    /\ batchInFlight
    /\ batchInFlight' = FALSE
    /\ UNCHANGED <<config, status, eventStore, eventReads, registered, natsStarts,
                   natsConn, inFlight, rpcInFlight, stopSignalled, shutdownLog,
                   truncated, accVars, evVars>>

SubmitBegin ==
    /\ status = "serving"
    /\ ~rpcInFlight
    /\ rpcInFlight' = TRUE
    /\ UNCHANGED <<config, status, eventStore, eventReads, registered, natsStarts,
                   natsConn, inFlight, batchInFlight, stopSignalled, shutdownLog,
                   truncated, accVars, evVars>>

SubmitEnd ==
    /\ rpcInFlight
    /\ rpcInFlight' = FALSE
    /\ UNCHANGED <<config, status, eventStore, eventReads, registered, natsStarts,
                   natsConn, inFlight, batchInFlight, stopSignalled, shutdownLog,
                   truncated, accVars, evVars>>

(***************************************************************************)
(* The shutdown function Serve returns: its three calls in order.          *)
(* stopSubscription closes the NATS connection when there is one.  StopAll *)
(* tells the tasks to stop and returns when no iteration is in flight or   *)
(* when its timeout has passed.  GracefulStop returns when no call is in   *)
(* flight.                                                                 *)
(***************************************************************************)
\* StopAll called before stopSubscription.
ShutdownOrderTasksFirst == <<"StopAll", "stopSubscription", "GracefulStop">>

ShutdownOrder == <<"stopSubscription", "StopAll", "GracefulStop">>

NextCall ==
    IF Len(shutdownLog) < Len(ShutdownOrder)
    THEN ShutdownOrder[Len(shutdownLog) + 1]
    ELSE "return"

WorkInFlight ==
    inFlight
        \cup (IF batchInFlight THEN {"replication"} ELSE {})
        \cup (IF rpcInFlight THEN {"submit"} ELSE {})

StopSubscription ==
    /\ status = "serving"
    /\ NextCall = "stopSubscription"
    /\ IF natsConn = "open"
       THEN natsConn' = "closed" /\ truncated' = truncated \cup WorkInFlight
       ELSE UNCHANGED <<natsConn, truncated>>
    /\ shutdownLog' = Append(shutdownLog, "stopSubscription")
    /\ UNCHANGED <<config, status, eventStore, eventReads, registered, natsStarts,
                   inFlight, batchInFlight, rpcInFlight, stopSignalled, accVars,
                   evVars>>

StopAllSignal ==
    /\ status = "serving"
    /\ NextCall = "StopAll"
    /\ ~stopSignalled
    /\ stopSignalled' = TRUE
    /\ UNCHANGED <<config, status, eventStore, eventReads, registered, natsStarts,
                   natsConn, inFlight, batchInFlight, rpcInFlight, shutdownLog,
                   truncated, accVars, evVars>>

StopAllReturn ==
    /\ status = "serving"
    /\ NextCall = "StopAll"
    /\ stopSignalled
    /\ \E timedOut \in BOOLEAN : inFlight = {} \/ timedOut
    /\ shutdownLog' = Append(shutdownLog, "StopAll")
    /\ UNCHANGED <<config, status, eventStore, eventReads, registered, natsStarts,
                   natsConn, inFlight, batchInFlight, rpcInFlight, stopSignalled,
                   truncated, accVars, evVars>>

GracefulStop ==
    /\ status = "serving"
    /\ NextCall = "GracefulStop"
    /\ ~rpcInFlight
    /\ status' = "stopped"
    /\ shutdownLog' = Append(shutdownLog, "GracefulStop")
    /\ UNCHANGED <<config, eventStore, eventReads, registered, natsStarts, natsConn,
                   inFlight, batchInFlight, rpcInFlight, stopSignalled, truncated,
                   accVars, evVars>>

NotStarted ==
    /\ status = "init"
    /\ eventStore = "none"
    /\ eventReads = "none"
    /\ registered = {}
    /\ natsStarts = 0
    /\ natsConn = "none"
    /\ inFlight = {}
    /\ batchInFlight = FALSE
    /\ rpcInFlight = FALSE
    /\ stopSignalled = FALSE
    /\ shutdownLog = <<>>
    /\ truncated = {}

NotServing ==
    /\ config = [kafkaBrokers |-> 0, natsServers |-> 0, leaseIntervalMs |-> 500]
    /\ NotStarted

NoEvents ==
    /\ event = [Variant |-> "Unset", JobId |-> NilUuid]
    /\ extracted = NotExtracted

(***************************************************************************)
(* The snapshots the listers may hold.                                     *)
(***************************************************************************)
NodeNames == <<"n1", "n2">>

NodeAllocatable == <<[cpu |-> 10, memory |-> 4], [cpu |-> 1, memory |-> 1]>>

TaintEffects == {"NoSchedule", "PreferNoSchedule", "NoExecute"}

TaintLists(n) == UNION {[1..k -> [Effect : TaintEffects]] : k \in 0..n}

NodeLists(taintLists) ==
    {[i \in 1..Len(NodeNames) |->
         [Name |-> NodeNames[i], Unschedulable |-> u[i], Taints |-> t[i],
          Allocatable |-> NodeAllocatable[i]]] :
        u \in [1..Len(NodeNames) -> BOOLEAN],
        t \in [1..Len(NodeNames) -> taintLists]}

PodNames == <<"p1", "p2", "p3", "p4">>

PodResources == {[cpu |-> 4], [cpu |-> 2, memory |-> 3]}

EmptyLabels == [k \in {} |-> ""]

PodLists(kinds, n) ==
    {[i \in 1..Len(f) |->
         [Name |-> PodNames[i], NodeName |-> f[i].NodeName,
          Managed |-> f[i].Managed, Labels |-> f[i].Labels,
          Phase |-> f[i].Phase, Resources |-> f[i].Resources]] :
        f \in UNION {[1..k -> kinds] : k \in 0..n}}

NoCall == [called |-> FALSE, err |-> FALSE, value |-> EmptyResources]

NoCycle == [called |-> FALSE, nodeErr |-> FALSE, podErr |-> FALSE, sent |-> FALSE]

BoundPodKinds ==
    [NodeName : {"", "n1", "n2"}, Managed : BOOLEAN, Labels : {EmptyLabels},
     Phase : {"Running", "Succeeded", "Failed"}, Resources : PodResources]

\* Each node plain, unschedulable or with a NoSchedule taint.
Init ==
    /\ nodes \in {ns \in NodeLists({<<>>, <<[Effect |-> TaintEffectNoSchedule]>>}) :
                     \A i \in 1..Len(ns) :
                         ~(ns[i].Unschedulable /\ ns[i].Taints # <<>>)}
    /\ pods \in PodLists(BoundPodKinds, MaxPods)
    /\ capacity = NoCall
    /\ processingNodes = <<>>
    /\ allPodsRequiringResource = <<>>
    /\ sink = <<>>
    /\ cycle = NoCycle
    /\ logged = <<>>
    /\ NoEvents
    /\ NotServing

Next == GetAvailableClusterCapacity

Spec == Init /\ [][Next]_vars

(***************************************************************************)
(* SpecNodes: every combination of the unschedulable flag and of up to     *)
(* MaxTaints taints on the two nodes, one running pod on each.             *)
(***************************************************************************)
QueueLabels(q) == [k \in {QueueLabel} |-> q]

NodePodKinds(name) ==
    [NodeName : {name}, Managed : {TRUE}, Labels : {QueueLabels("qa")},
     Phase : {"Running"}, Resources : {[cpu |-> 4]}]

InitNodes ==
    /\ nodes \in NodeLists(TaintLists(MaxTaints))
    /\ pods \in {p \in PodLists(NodePodKinds("n1") \cup NodePodKinds("n2"), 2) :
                    /\ Len(p) = 2
                    /\ p[1].NodeName = "n1"
                    /\ p[2].NodeName = "n2"}
    /\ capacity = NoCall
    /\ processingNodes = <<>>
    /\ allPodsRequiringResource = <<>>
    /\ sink = <<>>
    /\ cycle = NoCycle
    /\ logged = <<>>
    /\ NoEvents
    /\ NotServing

NextNodes ==
    \/ GetAvailableClusterCapacity
    \/ ReportClusterUtilisation

SpecNodes == InitNodes /\ [][NextNodes]_vars

(***************************************************************************)
(* SpecUsage: every list of up to MaxPods pods over the queue label        *)
(* (absent, "qa", "qb"), the resources, and the pod being active, managed  *)
(* and completed, or unmanaged.                                            *)
(***************************************************************************)
QueuePodKinds ==
    {k \in [NodeName : {"n1"}, Managed : BOOLEAN,
            Labels : {EmptyLabels, QueueLabels("qa"), QueueLabels("qb")},
            Phase : {"Running", "Succeeded"}, Resources : PodResources] :
        k.Managed \/ k.Phase = "Running"}

InitUsage ==
    /\ nodes \in {ns \in NodeLists({<<>>}) : ~ns[1].Unschedulable}
    /\ pods \in PodLists(QueuePodKinds, MaxPods)
    /\ capacity = NoCall
    /\ processingNodes = <<>>
    /\ allPodsRequiringResource = <<>>
    /\ sink = <<>>
    /\ cycle = NoCycle
    /\ logged = <<>>
    /\ NoEvents
    /\ NotServing

NextUsage == ReportClusterUtilisation

SpecUsage == InitUsage /\ [][NextUsage]_vars

(***************************************************************************)
(* SpecEvents: JobIdFromEvent on every event of Events.                    *)
(***************************************************************************)
NoSnapshot ==
    /\ nodes = <<>>
    /\ pods = <<>>
    /\ capacity = NoCall
    /\ processingNodes = <<>>
    /\ allPodsRequiringResource = <<>>
    /\ sink = <<>>
    /\ cycle = NoCycle
    /\ logged = <<>>

InitEvents ==
    /\ event \in Events
    /\ extracted = NotExtracted
    /\ NoSnapshot
    /\ NotServing

NextEvents == ExtractJobId

SpecEvents == InitEvents /\ [][NextEvents]_vars

(***************************************************************************)
(* SpecServe: Serve under every configuration of Configs, the work of the  *)
(* running server and one call of the shutdown function.                   *)
(***************************************************************************)
InitServe ==
    /\ config \in Configs
    /\ NotStarted
    /\ NoEvents
    /\ NoSnapshot

NextServe ==
    \/ Serve
    \/ \E t \in {"kafka_redis_processor", "lease_expiry"} : TaskBegin(t)
    \/ \E t \in {"kafka_redis_processor", "lease_expiry"} : TaskEnd(t)
    \/ NatsDeliver
    \/ NatsApplied
    \/ SubmitBegin
    \/ SubmitEnd
    \/ StopSubscription
    \/ StopAllSignal
    \/ StopAllReturn
    \/ GracefulStop

SpecServe == InitServe /\ [][NextServe]_vars

(***************************************************************************)
(* What the claims speak of, stated over sets rather than by the code's    *)
(* loops.                                                                  *)
(***************************************************************************)
RECURSIVE SumQty(_, _)
SumQty(S, q) ==
    IF S = {} THEN 0
    ELSE LET x == CHOOSE y \in S : TRUE
         IN  q[x] + SumQty(S \ {x}, q)

Range(seq) == {seq[i] : i \in 1..Len(seq)}

NoDuplicates(seq) == \A i, j \in 1..Len(seq) : seq[i] = seq[j] => i = j

\* A node that is not unschedulable and has no NoSchedule taint.
Eligible(node) ==
    /\ ~node.Unschedulable
    /\ TaintEffectNoSchedule \notin {node.Taints[i].Effect : i \in 1..Len(node.Taints)}

EligibleNodes == {i \in 1..Len(nodes) : Eligible(nodes[i])}

EligibleNames == {nodes[i].Name : i \in EligibleNodes}

EligibleCapacity(k) ==
    SumQty(EligibleNodes, [i \in EligibleNodes |-> Quantity(nodes[i].Allocatable, k)])

\* A pod bound to an eligible node, or managed and bound to no node.
Requiring(pod) ==
    \/ pod.NodeName \in EligibleNames
    \/ pod.Managed /\ pod.NodeName = ""

ConsumingPods ==
    {j \in 1..Len(pods) :
        Requiring(pods[j]) /\ pods[j].Phase \notin {"Succeeded", "Failed"}}

Consumption(k) ==
    SumQty(ConsumingPods, [j \in ConsumingPods |-> Quantity(pods[j].Resources, k)])

\* C1: a successful GetAvailableClusterCapacity returns, for each resource
\* name, the allocatable total of the available processing nodes minus the
\* total of the non-completed pods bound to those nodes or pending onto
\* them, negative when the pods over-commit the nodes.
C1_AvailableCapacity ==
    (capacity.called /\ ~capacity.err) =>
        /\ DOMAIN capacity.value \subseteq ResourceNames
        /\ \A k \in ResourceNames :
               Quantity(capacity.value, k) = EligibleCapacity(k) - Consumption(k)

\* C1 witness: a call returned a negative quantity while a completed pod
\* bound to an available processing node was left out of the consumption.
C1_Witness ==
    /\ capacity.called /\ ~capacity.err
    /\ \E k \in DOMAIN capacity.value : capacity.value[k] < 0
    /\ \E j \in 1..Len(pods) :
           pods[j].NodeName \in EligibleNames /\ pods[j].Phase = "Failed"

\* C2: filterAvailableProcessingNodes keeps exactly the nodes that are not
\* unschedulable and carry no NoSchedule taint, in list order, and only
\* those nodes count in the reported cluster capacity and in the available
\* capacity (in SpecNodes pod i runs on node i).
C2_ProcessingNodes ==
    /\ (capacity.called /\ ~capacity.err) =>
           /\ Range(processingNodes) = {nodes[i] : i \in EligibleNodes}
           /\ NoDuplicates(processingNodes)
           /\ \A k \in ResourceNames :
                  Quantity(capacity.value, k) =
                      SumQty(EligibleNodes,
                             [i \in EligibleNodes |->
                                 Quantity(nodes[i].Allocatable, k)
                                 - Quantity(pods[i].Resources, k)])
    /\ \A r \in 1..Len(sink) :
           /\ DOMAIN sink[r].ClusterCapacity \subseteq ResourceNames
           /\ \A k \in ResourceNames :
                  Quantity(sink[r].ClusterCapacity, k) = EligibleCapacity(k)

\* C2 witness: a report was sent and the capacity computed while one node
\* was unschedulable and the other carried a NoSchedule taint behind a
\* taint of another effect.
C2_Witness ==
    /\ capacity.called /\ ~capacity.err
    /\ Len(sink) > 0
    /\ nodes[1].Unschedulable
    /\ ~nodes[2].Unschedulable
    /\ Len(nodes[2].Taints) = 2
    /\ nodes[2].Taints[1].Effect = "NoExecute"
    /\ nodes[2].Taints[2].Effect = TaintEffectNoSchedule

\* C3: getAllPodsRequiringResourceOnProcessingNodes returns exactly the
\* pods bound to an available processing node and the managed pods bound
\* to no node, each once; pods bound to an excluded node and unmanaged
\* pods bound to no node are left out.
C3_PodsRequiringResource ==
    (capacity.called /\ ~capacity.err) =>
        /\ Range(allPodsRequiringResource) =
               {pods[j] : j \in {i \in 1..Len(pods) : Requiring(pods[i])}}
        /\ NoDuplicates(allPodsRequiringResource)

\* C3 witness: of two pods bound to no node the managed one was kept and
\* the unmanaged one left out.
C3_Witness ==
    /\ capacity.called /\ ~capacity.err
    /\ Len(pods) = 2
    /\ Len(allPodsRequiringResource) = 1
    /\ pods[1].NodeName = "" /\ ~pods[1].Managed
    /\ pods[2].NodeName = "" /\ pods[2].Managed

(***************************************************************************)
(* Per-queue usage.                                                        *)
(***************************************************************************)
QueuesOf(ps) == {ps[i].Labels[QueueLabel] : i \in {j \in 1..Len(ps) : HasQueue(ps[j])}}

PodsOfQueue(ps, q) ==
    {i \in 1..Len(ps) : HasQueue(ps[i]) /\ ps[i].Labels[QueueLabel] = q}

\* Each queue's total: the sum of the resources of its labelled pods.
ExpectedUsage(ps) ==
    [q \in QueuesOf(ps) |->
        LET mine == PodsOfQueue(ps, q)
            names == UNION {DOMAIN ps[i].Resources : i \in mine}
        IN  [k \in names |-> SumQty(mine, [i \in mine |-> Quantity(ps[i].Resources, k)])]]

Permuted(ps) ==
    {[i \in 1..Len(ps) |-> ps[perm[i]]] : perm \in Permutations(1..Len(ps))}

\* The queue reports of a report, as a map from queue name to resources.
QueuesAsMap(queueReports) ==
    [q \in {queueReports[i].Name : i \in 1..Len(queueReports)} |->
        LET i == CHOOSE j \in 1..Len(queueReports) : queueReports[j].Name = q
        IN  queueReports[i].Resources]

OneReportPerQueue(queueReports) ==
    \A i, j \in 1..Len(queueReports) :
        queueReports[i].Name = queueReports[j].Name => i = j

\* C4: getUsageByQueue gives, for every order of the pod list, the same
\* map: the queues of the labelled pods, each with the sum of its pods'
\* resources; the reports sent carry that map.
C4_OrderIndependent ==
    /\ \A ps \in Permuted(pods) : getUsageByQueue(ps) = ExpectedUsage(pods)
    /\ \A r \in 1..Len(sink) :
           /\ OneReportPerQueue(sink[r].Queues)
           /\ QueuesAsMap(sink[r].Queues) = ExpectedUsage(getAllActiveManagedPods(pods))

\* C4 witness: a report was sent for two active pods of the same queue
\* with different resources.
C4_Witness ==
    /\ Len(sink) > 0
    /\ Len(pods) = 2
    /\ Len(getAllActiveManagedPods(pods)) = 2
    /\ HasQueue(pods[1]) /\ HasQueue(pods[2])
    /\ pods[1].Labels = pods[2].Labels
    /\ pods[1].Resources # pods[2].Resources

\* C5: pods without the queue label change nothing: the usage of a list
\* equals the usage of the list without them, no queue is made for them,
\* and a cycle whose reads succeed sends its report all the same and logs
\* one line per such pod.
C5_UnlabelledExcluded ==
    LET active == getAllActiveManagedPods(pods)
        labelled == SelectSeq(active, HasQueue)
    IN  /\ getUsageByQueue(pods) = getUsageByQueue(SelectSeq(pods, HasQueue))
        /\ \A r \in 1..Len(sink) :
               /\ QueuesAsMap(sink[r].Queues) = getUsageByQueue(labelled)
               /\ Len(sink[r].Queues) = Cardinality(QueuesOf(labelled))
        /\ (cycle.called /\ ~cycle.nodeErr /\ ~cycle.podErr) =>
               /\ Len(sink) > 0
               /\ Cardinality({i \in 1..Len(logged) : logged[i].msg = "no queue"})
                      = Len(active) - Len(labelled)

\* C5 witness: a report was sent for an active unlabelled pod listed
\* before an active labelled one.
C5_Witness ==
    /\ cycle.called /\ cycle.sent
    /\ Len(sink) > 0
    /\ Len(pods) = 2
    /\ Len(getAllActiveManagedPods(pods)) = 2
    /\ ~HasQueue(pods[1])
    /\ HasQueue(pods[2])
    /\ Len(sink[1].Queues) = 1

\* C6: a ReportClusterUtilisation call in which the node read or the pod
\* read fails hands nothing to the usage client; a call in which both
\* succeed, also after failed ones, hands it exactly one report with the
\* cluster id, the capacity of the available processing nodes and the
\* per-queue reports.
C6_ReadFailureAborts ==
    [][IF cycle'.nodeErr \/ cycle'.podErr
       THEN sink' = sink
       ELSE /\ Len(sink') = Len(sink) + 1
            /\ SubSeq(sink', 1, Len(sink)) = sink
            /\ LET r == sink'[Len(sink')]
               IN  /\ r.ClusterId = ClientId
                   /\ \A k \in ResourceNames :
                          Quantity(r.ClusterCapacity, k) = EligibleCapacity(k)
                   /\ OneReportPerQueue(r.Queues)
                   /\ QueuesAsMap(r.Queues)
                          = ExpectedUsage(getAllActiveManagedPods(pods))]_vars

\* C6 witness: a cycle aborted on a failed pod read after an earlier cycle
\* had sent its report, which is all the usage client holds.
C6_Witness ==
    /\ cycle.called /\ cycle.podErr /\ ~cycle.sent
    /\ Len(sink) = 1
    /\ Len(sink[1].Queues) = 2

Before(a, b) ==
    \A i \in 1..Len(shutdownLog) :
        shutdownLog[i] = b => \E j \in 1..(i - 1) : shutdownLog[j] = a

\* C8: the shutdown closes no connection while an iteration of a
\* registered task, an append or a replication batch is in flight on it.
C8_NoCloseWhileInFlight == truncated = {}

\* C9: in every shutdown stopSubscription has returned before StopAll
\* returns and StopAll before GracefulStop; with the NATS backend the
\* connection is closed by the time StopAll returns.
C9_ShutdownOrder ==
    /\ Before("stopSubscription", "StopAll")
    /\ Before("StopAll", "GracefulStop")
    /\ (stopSignalled /\ natsStarts > 0) => natsConn = "closed"
    /\ status = "stopped" => Len(shutdownLog) = 3

\* C9 witness: a shutdown with the NATS backend has run to its end.
C9_Witness ==
    /\ status = "stopped"
    /\ eventStore = "nats"
    /\ shutdownLog = <<"stopSubscription", "StopAll", "GracefulStop">>

\* C10: once Serve has set the server up, appends go to Kafka if brokers
\* are configured, else to NATS if servers are configured, else to redis;
\* the Kafka processor is registered, at 100 ms, exactly under Kafka; the
\* NATS processor has been started, once, exactly under NATS; reads come
\* from redis and lease expiry is registered at the configured interval.
C10_BackendSelection ==
    status \in {"serving", "fatal", "stopped"} =>
        /\ eventStore =
               (IF config.kafkaBrokers > 0 THEN "kafka"
                ELSE IF config.natsServers > 0 THEN "nats"
                ELSE "redis")
        /\ (Task("kafka_redis_processor", 100) \in registered) <=> (eventStore = "kafka")
        /\ \A t \in registered :
               t.name = "kafka_redis_processor" => t.intervalMs = 100
        /\ natsStarts = (IF eventStore = "nats" THEN 1 ELSE 0)
        /\ (natsConn # "none") <=> (eventStore = "nats")
        /\ eventReads = "redis"
        /\ {t \in registered : t.name = "lease_expiry"}
               = {Task("lease_expiry", config.leaseIntervalMs)}
        /\ TaskNames \subseteq {"kafka_redis_processor", "lease_expiry"}

\* C10 witness: the server serves with Kafka brokers and NATS servers both
\* configured.
C10_Witness ==
    /\ status = "serving"
    /\ config.kafkaBrokers > 0
    /\ config.natsServers > 0
    /\ eventStore = "kafka"

=============================================================================
